---- MODULE Spec2Model ----
(***************************************************************************)
(* Model of server.js: the POST /api/build intake handler and the detached *)
(* pipeline processRequest (generateCode -> createGitHubRepo ->            *)
(* enableGitHubPages -> 30 s wait -> notifyEvaluation).                    *)
(*                                                                         *)
(* Node runs every callback to completion, so one action is one callback:  *)
(* the code from the resumption of an await (an external call returning, a *)
(* timer firing) up to the next await.  External collaborators (OpenAI,    *)
(* GitHub, the evaluation endpoint) answer nondeterministically.           *)
(***************************************************************************)
EXTENDS Integers, Sequences, FiniteSets, TLC

\* Number of build requests the clients send when whole pipelines are studied
\* (Spec).
MaxSolo == 1

\* Number of deliver operations (notifyEvaluation) in progress when the
\* notifier is studied against every answer of the evaluation endpoint
\* (SpecNotify).
MaxNotify == 1

\* Number of build requests the clients send when concurrent pipelines are
\* studied against one answer per outcome of each collaborator (SpecConc).
MaxConc == 2

\* Largest round number a request carries when the notice is studied
\* (SpecNotice).
MaxRound == 2

Max(a, b) == IF a > b THEN a ELSE b

Reqs == 1..Max(MaxSolo, Max(MaxNotify, MaxConc))

\* process.env.SECRET_KEY
SECRET_KEY == "s3cret"

\* A loop bound that is off by one.
maxRetriesOffByOne == 5 + 1

\* const maxRetries = 5
maxRetries == 5

\* let delay = 1000
StartDelay == 1000

\* setTimeout(resolve, 3000) in createGitHubRepo
InitMs == 3000

\* A settle wait as short as the repository initialization wait.
SettleMsShort == 3 * 1000

\* setTimeout(resolve, 30000) in processRequest
SettleMs == 30000

VARIABLES
  world,   \* the environment of the run: how many requests arrive and the
           \* answers each collaborator may give (fixed during a run)
  req,     \* req[r]: the body of request r
  http,    \* http[r]: status of the HTTP response sent for request r (0: none yet)
  pc,      \* pc[r]: the await at which the pipeline of r is suspended
  bundle,  \* bundle[r]: content of code['index.html'] ("none" before generation)
  widx,    \* widx[r]: position of the for-of loop over Object.entries(files)
  remote,  \* remote[r]: the hosting side: repository, files written, pages site
  i,       \* i[r]: loop counter of notifyEvaluation
  delay,   \* delay[r]: delay variable of notifyEvaluation (ms)
  last,    \* last[r]: the answer of the evaluation endpoint to the latest
           \* attempt (none while an attempt is in flight)
  err,     \* err[r]: the stage whose error processRequest caught and logged
  log,     \* log[r]: the observable events of request r, in order
  repo,    \* repo[r]: repo.data, what createGitHubRepo returned to processRequest
  data,    \* data[r]: the data parameter of notifyEvaluation
  inbox    \* inbox[r]: the evaluation endpoint's side: the notices it received
           \* for request r, in order, each with whether it answered 200

vars == <<world, req, http, pc, bundle, widx, remote, i, delay, last, err, log, repo, data, inbox>>

E(ev, n) == [ev |-> ev, n |-> n]

NoResp == [st |-> 0, body |-> "none"]

\* Before createGitHubRepo has returned.
NoRepo == [name |-> <<>>, login |-> "", html_url |-> <<>>, default_branch |-> ""]

\* Before notifyEvaluation is called.
NoData ==
  [email |-> "", task |-> "", round |-> 0, nonce |-> "",
   repo_url |-> <<>>, commit_sha |-> "", pages_url |-> <<>>]

----------------------------------------------------------------------------
(* Inputs *)

\* A request body: absent (req.body undefined), or carrying a secret, a
\* checks field that is an array or not, and the fields the notice is built
\* from.
NoBody ==
  [present |-> FALSE, secret |-> "", checksOk |-> FALSE,
   email |-> "", task |-> "", round |-> 0, nonce |-> ""]

\* The request of the running example: task t1, round 2.
ExampleFields == [email |-> "a@x.org", task |-> "t1", round |-> 2, nonce |-> "n1"]

\* Every combination of the fields the notice is built from.
AllFields ==
  [email : {"a@x.org", "b@y.org"}, task : {"t1", "t2"}, round : 1..MaxRound,
   nonce : {"n1", "n2"}]

BodyOf(s, c, d) ==
  [present |-> TRUE, secret |-> s, checksOk |-> c,
   email |-> d.email, task |-> d.task, round |-> d.round, nonce |-> d.nonce]

Bodies ==
  {NoBody}
    \cup {BodyOf(s, c, d) : s \in {SECRET_KEY, "wrong"}, c \in BOOLEAN, d \in world.fields}

\* The accounts the hosting side may report as the owner of a new repository.
Owners == {"alice", "acme"}

\* What openai.chat.completions.create gives: a rejection, a message whose
\* content is null, an empty string, or a document.
GenOutcomes == {"throw", "null", "empty", "html"}

\* What createPagesSite gives: success (201), the 409 conflict, other error
\* statuses, or an error without a status (0: no response).
PagesOutcomes == {0, 201, 409, 422, 500}

\* What the evaluation endpoint gives to one POST: a response with a status
\* and a body, or no response (connection error, 10 s timeout).
Responses ==
  [st : {200, 404, 500}, body : {"json", "junk"}]
    \cup {[st |-> 201, body |-> "json"], [st |-> 204, body |-> "none"]}
    \cup {[st |-> 0, body |-> "neterr"], [st |-> 0, body |-> "timeout"]}

\* For a POST the notifier gave up on at its 10 s timeout: whether the
\* evaluation endpoint answered it 200 all the same (too late).
LateChoices(resp) == IF resp.body = "timeout" THEN world.late ELSE {FALSE}

\* The answers the collaborators give in the current run.
GenChoices == world.gen

OwnerChoices == world.owners

PagesChoices == world.pages

PostChoices == world.post

\* One answer of the evaluation endpoint for each way notifyEvaluation can
\* take it: a 200, another 2xx status, a rejection.
ResponseClasses ==
  {[st |-> 200, body |-> "json"], [st |-> 201, body |-> "json"], [st |-> 404, body |-> "json"]}

----------------------------------------------------------------------------
(* Helpers *)

Has(s, ev) == \E k \in 1..Len(s) : s[k].ev = ev

Count(s, ev) == Cardinality({k \in 1..Len(s) : s[k].ev = ev})

\* Index of the first event named ev (0 when there is none).
First(s, ev) ==
  IF Has(s, ev) THEN CHOOSE k \in 1..Len(s) : s[k].ev = ev /\ \A j \in 1..(k-1) : s[j].ev # ev
  ELSE 0

----------------------------------------------------------------------------
(* app.post('/api/build') and the synchronous head of processRequest *)

\* A pipeline that issues the generation call a second time.
processRequestHeadTwice(b) ==
  <<E("start", 0)>> \o
    (IF b.checksOk THEN <<E("genCall", 0), E("genCall", 0)>> ELSE <<E("logError", 0)>>)

\* generateCode up to its first await: the prompt is built with checks.map,
\* which throws when checks is not an array; the rejection is caught by
\* processRequest and logged.  Otherwise the generation call is issued.
processRequestHead(b) ==
  <<E("start", 0)>> \o
    (IF b.checksOk THEN <<E("genCall", 0)>> ELSE <<E("logError", 0)>>)

\* A handler that starts the pipeline before it answers.
HandlerEventsAckLast(b) ==
  IF ~b.present THEN <<E("resp", 500)>>
  ELSE IF b.secret # SECRET_KEY THEN <<E("resp", 403)>>
  ELSE processRequestHead(b) \o <<E("resp", 200)>>

\* A handler that compares the secret only after it started the pipeline.
HandlerEventsCheckLast(b) ==
  IF ~b.present THEN <<E("resp", 500)>>
  ELSE IF b.secret # SECRET_KEY THEN processRequestHead(b) \o <<E("resp", 403)>>
  ELSE <<E("resp", 200)>> \o processRequestHead(b)

\* A handler that answers 500 when the pipeline it started has failed.
HandlerEventsRethrow(b) ==
  IF ~b.present THEN <<E("resp", 500)>>
  ELSE IF b.secret # SECRET_KEY THEN <<E("resp", 403)>>
  ELSE <<E("resp", 200)>> \o processRequestHead(b) \o
         (IF b.checksOk THEN <<>> ELSE <<E("resp", 500)>>)

\* The events of one run of the handler, in order.
HandlerEvents(b) ==
  IF ~b.present THEN <<E("resp", 500)>>
  ELSE IF b.secret # SECRET_KEY THEN <<E("resp", 403)>>
  ELSE <<E("resp", 200)>> \o processRequestHead(b)

\* The response the handler sent.
Status(evs) == evs[First(evs, "resp")].n

\* Where the handler leaves the pipeline.
PcAfter(evs) ==
  IF Has(evs, "genCall") THEN "gen"
  ELSE IF Has(evs, "logError") THEN "failed"
  ELSE "idle"

\* A handler that takes a request only when no pipeline is in progress.
BuildWhenQuiet(r) ==
  /\ http[r] = 0
  /\ r <= world.clients
  /\ r > 1 => http[r-1] # 0
  /\ \A q \in Reqs : pc[q] \in {"idle", "done", "failed"}
  /\ \E b \in Bodies :
       LET evs == HandlerEvents(b) IN
         /\ req' = [req EXCEPT ![r] = b]
         /\ http' = [http EXCEPT ![r] = Status(evs)]
         /\ log' = [log EXCEPT ![r] = evs]
         /\ pc' = [pc EXCEPT ![r] = PcAfter(evs)]
         /\ err' = [err EXCEPT ![r] = IF PcAfter(evs) = "failed" THEN "generate" ELSE @]
  /\ UNCHANGED <<world, repo, data, inbox, bundle, widx, remote, i, delay, last>>

\* Request r arrives (requests are numbered in their order of arrival).
Build(r) ==
  /\ http[r] = 0
  /\ r <= world.clients
  /\ r > 1 => http[r-1] # 0
  /\ \E b \in Bodies :
       LET evs == HandlerEvents(b) IN
         /\ req' = [req EXCEPT ![r] = b]
         /\ http' = [http EXCEPT ![r] = Status(evs)]
         /\ log' = [log EXCEPT ![r] = evs]
         /\ pc' = [pc EXCEPT ![r] = PcAfter(evs)]
         /\ err' = [err EXCEPT ![r] = IF PcAfter(evs) = "failed" THEN "generate" ELSE @]
  /\ UNCHANGED <<world, repo, data, inbox, bundle, widx, remote, i, delay, last>>

----------------------------------------------------------------------------
(* generateCode *)

\* A generateCode that swallows the rejection of the generation call.
GenThrowsOnlyOnNull(o) == o = "null"

\* The generation fails when the call rejects, or when the content is null
\* (htmlContent.replace throws a TypeError).
GenThrows(o) == o \in {"throw", "null"}

GenEvent(o) ==
  CASE o = "throw" -> E("genThrow", 0)
    [] o = "null" -> E("genNull", 0)
    [] o = "empty" -> E("genEmpty", 0)
    [] OTHER -> E("genHtml", 0)

\* The generation call returns; on success the bundle is built and
\* createGitHubRepo issues users.getAuthenticated.
generateCodeReturn(r) ==
  /\ pc[r] = "gen"
  /\ \E o \in GenChoices :
       IF GenThrows(o)
       THEN /\ pc' = [pc EXCEPT ![r] = "failed"]
            /\ err' = [err EXCEPT ![r] = "generate"]
            /\ log' = [log EXCEPT ![r] = @ \o <<GenEvent(o), E("logError", 0)>>]
            /\ UNCHANGED bundle
       ELSE /\ pc' = [pc EXCEPT ![r] = "user"]
            /\ bundle' = [bundle EXCEPT ![r] = IF o = "html" THEN "html" ELSE "empty"]
            /\ log' = [log EXCEPT ![r] = @ \o <<GenEvent(o), E("userCall", 0)>>]
            /\ UNCHANGED err
  /\ UNCHANGED <<world, repo, data, inbox, req, http, widx, remote, i, delay, last>>

----------------------------------------------------------------------------
(* createGitHubRepo *)

\* The keys of the bundle in alphabetical order.
BundleKeysSorted == <<"LICENSE", "README.md", "index.html">>

\* Object.entries(files): the keys of the bundle in insertion order.
BundleKeys == <<"index.html", "README.md", "LICENSE">>

\* users.getAuthenticated returns; on success repos.createForAuthenticatedUser
\* is issued.
getAuthenticatedReturn(r) ==
  /\ pc[r] = "user"
  /\ \E ok \in BOOLEAN :
       IF ok
       THEN /\ pc' = [pc EXCEPT ![r] = "create"]
            /\ log' = [log EXCEPT ![r] = @ \o <<E("userRet", 0), E("createCall", 0)>>]
            /\ UNCHANGED err
       ELSE /\ pc' = [pc EXCEPT ![r] = "failed"]
            /\ err' = [err EXCEPT ![r] = "publish"]
            /\ log' = [log EXCEPT ![r] = @ \o <<E("userFail", 0), E("logError", 0)>>]
  /\ UNCHANGED <<world, repo, data, inbox, req, http, bundle, widx, remote, i, delay, last>>

\* A name without the round.
RepoNameTaskOnly(task, round) == <<task>>

\* const repoName = `${task}-round${round}`: a text is modelled as the
\* sequence of its pieces, the round as its decimal digits.
RepoName(task, round) == <<task, "-round", ToString(round)>>

\* What the hosting side answers for the repository it created under the
\* account o with the name it was given.
RepoData(o, name) ==
  [name |-> name, login |-> o, html_url |-> <<"https://github.com/", o, "/">> \o name,
   default_branch |-> "main"]

\* repos.createForAuthenticatedUser returns; on success the 3 s timer is set.
createRepoReturn(r) ==
  /\ pc[r] = "create"
  /\ \E ok \in BOOLEAN, o \in OwnerChoices :
       IF ok
       THEN /\ pc' = [pc EXCEPT ![r] = "initwait"]
            /\ remote' = [remote EXCEPT ![r].repo = TRUE]
            /\ repo' = [repo EXCEPT ![r] = RepoData(o, RepoName(req[r].task, req[r].round))]
            /\ log' = [log EXCEPT ![r] = @ \o <<E("createRet", 0), E("timerSet", InitMs)>>]
            /\ UNCHANGED err
       ELSE /\ pc' = [pc EXCEPT ![r] = "failed"]
            /\ err' = [err EXCEPT ![r] = "publish"]
            /\ log' = [log EXCEPT ![r] = @ \o <<E("createFail", 0), E("logError", 0)>>]
            /\ UNCHANGED <<remote, repo>>
  /\ UNCHANGED <<world, data, inbox, req, http, bundle, widx, i, delay, last>>

\* The 3 s timer fires: the loop starts and issues the first file write.
repoInitElapsed(r) ==
  /\ pc[r] = "initwait"
  /\ pc' = [pc EXCEPT ![r] = "write"]
  /\ widx' = [widx EXCEPT ![r] = 1]
  /\ remote' = [remote EXCEPT ![r].writing = {BundleKeys[1]}]
  /\ log' = [log EXCEPT ![r] = @ \o <<E("timerFired", InitMs), E("writeCall", 1)>>]
  /\ UNCHANGED <<world, repo, data, inbox, req, http, bundle, i, delay, last, err>>

\* A loop that swallows the rejection of a write and goes on.
WriteThrowsNever(ok) == FALSE

\* A rejected createOrUpdateFileContents leaves the loop and createGitHubRepo.
WriteThrows(ok) == ~ok

\* createOrUpdateFileContents of file widx returns.  On success the loop goes
\* on to the next entry; after the last entry createGitHubRepo returns
\* repo.data and enableGitHubPages issues createPagesSite.
createFileReturn(r) ==
  /\ pc[r] = "write"
  /\ \E ok \in BOOLEAN :
       LET k == widx[r]
           \* the hosting side has handled the write of entry k
           rem == [remote EXCEPT ![r].files = IF ok THEN Append(@, BundleKeys[k]) ELSE @,
                                 ![r].writing = @ \ {BundleKeys[k]}]
           ev == IF ok THEN E("writeRet", k) ELSE E("writeFail", k)
       IN
         /\ IF WriteThrows(ok)
            THEN /\ pc' = [pc EXCEPT ![r] = "failed"]
                 /\ err' = [err EXCEPT ![r] = "publish"]
                 /\ remote' = rem
                 /\ log' = [log EXCEPT ![r] = @ \o <<ev, E("logError", 0)>>]
                 /\ UNCHANGED widx
            ELSE IF k < Len(BundleKeys)
            THEN /\ widx' = [widx EXCEPT ![r] = k + 1]
                 /\ remote' = [rem EXCEPT ![r].writing = @ \cup {BundleKeys[k + 1]}]
                 /\ log' = [log EXCEPT ![r] = @ \o <<ev, E("writeCall", k + 1)>>]
                 /\ UNCHANGED <<pc, err>>
            ELSE /\ pc' = [pc EXCEPT ![r] = "pages"]
                 /\ remote' = rem
                 /\ log' = [log EXCEPT ![r] = @ \o <<ev, E("pagesCall", 0)>>]
                 /\ UNCHANGED <<widx, err>>
  /\ UNCHANGED <<world, repo, data, inbox, req, http, bundle, i, delay, last>>

----------------------------------------------------------------------------
(* enableGitHubPages and the settle wait *)

\* An enableGitHubPages that swallows every error.
PagesThrowsNever(st) == FALSE

\* An enableGitHubPages that rethrows every error.
PagesThrowsAlways(st) == st # 201

\* catch (error) { if (error.status !== 409) throw error; }
PagesThrows(st) == st # 201 /\ st # 409

\* createPagesSite returns; unless the error propagates the 30 s timer is set.
createPagesSiteReturn(r) ==
  /\ pc[r] = "pages"
  /\ \E st \in PagesChoices :
       /\ remote' = [remote EXCEPT ![r].pages = (st \in {201, 409})]
       /\ IF PagesThrows(st)
          THEN /\ pc' = [pc EXCEPT ![r] = "failed"]
               /\ err' = [err EXCEPT ![r] = "pages"]
               /\ log' = [log EXCEPT ![r] = @ \o <<E("pagesRet", st), E("logError", 0)>>]
          ELSE /\ pc' = [pc EXCEPT ![r] = "settle"]
               /\ log' = [log EXCEPT ![r] = @ \o <<E("pagesRet", st), E("timerSet", SettleMs)>>]
               /\ UNCHANGED err
  /\ UNCHANGED <<world, repo, data, inbox, req, http, bundle, widx, i, delay, last>>

\* const pagesUrl = `https://${repo.owner.login}.github.io/${repoName}/`
PagesUrl(login, name) == <<"https://", login, ".github.io/">> \o name \o <<"/">>

\* The object processRequest passes to notifyEvaluation.
Notice(b, rp) ==
  [email |-> b.email, task |-> b.task, round |-> b.round, nonce |-> b.nonce,
   repo_url |-> rp.html_url, commit_sha |-> rp.default_branch,
   pages_url |-> PagesUrl(rp.login, RepoName(b.task, b.round))]

\* A notifier that stamps the number of the attempt on what it sends.
PayloadStamped(d, k) == [d EXCEPT !.nonce = <<@, k>>]

\* axios.post(evaluationUrl, data, ...): the body of attempt k.
Payload(d, k) == d

\* The evaluation endpoint receives a notice.
Received(box, n) == Append(box, [notice |-> n, ok |-> FALSE])

\* The evaluation endpoint has answered the notice it received last.
Answered(box, ok) == [box EXCEPT ![Len(box)].ok = ok]

\* A settle wait whose promise is never resolved: the timer fires and the
\* pipeline stays suspended.
settleElapsedUnresolved(r) ==
  /\ pc[r] = "settle"
  /\ pc' = [pc EXCEPT ![r] = "hung"]
  /\ log' = [log EXCEPT ![r] = @ \o <<E("timerFired", SettleMs)>>]
  /\ UNCHANGED <<world, repo, data, inbox, req, http, bundle, widx, remote, i, delay, last, err>>

\* A notifier whose delay lives outside the function, shared by every call.
settleElapsedSharedDelay(r) ==
  /\ pc[r] = "settle"
  /\ pc' = [pc EXCEPT ![r] = "post"]
  /\ i' = [i EXCEPT ![r] = 0]
  /\ delay' = [q \in Reqs |-> StartDelay]
  /\ data' = [data EXCEPT ![r] = Notice(req[r], repo[r])]
  /\ inbox' = [inbox EXCEPT ![r] = Received(@, Payload(data'[r], 1))]
  /\ log' = [log EXCEPT ![r] = @ \o <<E("timerFired", SettleMs), E("postCall", 1)>>]
  /\ UNCHANGED <<world, repo, req, http, bundle, widx, remote, last, err>>

\* The 30 s timer fires: the notice is built, notifyEvaluation starts and
\* issues its first POST.
settleElapsed(r) ==
  /\ pc[r] = "settle"
  /\ pc' = [pc EXCEPT ![r] = "post"]
  /\ i' = [i EXCEPT ![r] = 0]
  /\ delay' = [delay EXCEPT ![r] = StartDelay]
  /\ data' = [data EXCEPT ![r] = Notice(req[r], repo[r])]
  /\ inbox' = [inbox EXCEPT ![r] = Received(@, Payload(data'[r], 1))]
  /\ log' = [log EXCEPT ![r] = @ \o <<E("timerFired", SettleMs), E("postCall", 1)>>]
  /\ UNCHANGED <<world, repo, req, http, bundle, widx, remote, last, err>>

----------------------------------------------------------------------------
(* notifyEvaluation *)

\* axios rejects when there is no response (connection error, timeout) and
\* when the status is outside 200..299 (its default validateStatus).
AxiosThrows(resp) == resp.st = 0 \/ resp.st < 200 \/ resp.st > 299

\* A success test that also looks at the body.
IsSuccessByBody(resp) == resp.st = 200 /\ resp.body = "json"

\* if (response.status === 200)
IsSuccess(resp) == resp.st = 200

\* axios.post returns or rejects.
postReturn(r) ==
  /\ pc[r] = "post"
  /\ \E resp \in PostChoices : \E late \in LateChoices(resp) :
       /\ inbox' = [inbox EXCEPT ![r] =
                      LET box == Answered(@, resp.st = 200 \/ late) IN
                        IF ~AxiosThrows(resp) /\ ~IsSuccess(resp) /\ i[r] + 1 < maxRetries
                        THEN Received(box, Payload(data[r], i[r] + 2))
                        ELSE box]
       /\ IF AxiosThrows(resp)
          THEN \* catch: sleep when attempts remain, else the loop ends
               IF i[r] < maxRetries - 1
               THEN /\ pc' = [pc EXCEPT ![r] = "sleep"]
                    /\ last' = [last EXCEPT ![r] = resp]
                    /\ log' = [log EXCEPT ![r] = @ \o <<E("postThrow", i[r] + 1), E("timerSet", delay[r])>>]
                    /\ UNCHANGED <<i, err>>
               ELSE /\ pc' = [pc EXCEPT ![r] = "failed"]
                    /\ last' = [last EXCEPT ![r] = resp]
                    /\ i' = [i EXCEPT ![r] = @ + 1]
                    /\ err' = [err EXCEPT ![r] = "notify"]
                    /\ log' = [log EXCEPT ![r] = @ \o <<E("postThrow", i[r] + 1), E("logError", 0)>>]
          ELSE IF IsSuccess(resp)
          THEN /\ pc' = [pc EXCEPT ![r] = "done"]
               /\ last' = [last EXCEPT ![r] = resp]
               /\ log' = [log EXCEPT ![r] = @ \o <<E("postOk", i[r] + 1), E("logSuccess", 0)>>]
               /\ UNCHANGED <<i, err>>
          ELSE \* neither returned nor thrown: the loop goes on at once
               IF i[r] + 1 < maxRetries
               THEN /\ i' = [i EXCEPT ![r] = @ + 1]
                    /\ last' = [last EXCEPT ![r] = NoResp]
                    /\ log' = [log EXCEPT ![r] = @ \o <<E("postNot200", i[r] + 1), E("postCall", i[r] + 2)>>]
                    /\ UNCHANGED <<pc, err>>
               ELSE /\ pc' = [pc EXCEPT ![r] = "failed"]
                    /\ last' = [last EXCEPT ![r] = resp]
                    /\ i' = [i EXCEPT ![r] = @ + 1]
                    /\ err' = [err EXCEPT ![r] = "notify"]
                    /\ log' = [log EXCEPT ![r] = @ \o <<E("postNot200", i[r] + 1), E("logError", 0)>>]
  /\ UNCHANGED <<world, repo, data, req, http, bundle, widx, remote, delay>>

\* The backoff timer fires: the delay doubles and the next POST is issued.
backoffElapsed(r) ==
  /\ pc[r] = "sleep"
  /\ pc' = [pc EXCEPT ![r] = "post"]
  /\ delay' = [delay EXCEPT ![r] = @ * 2]
  /\ i' = [i EXCEPT ![r] = @ + 1]
  /\ last' = [last EXCEPT ![r] = NoResp]
  /\ inbox' = [inbox EXCEPT ![r] = Received(@, Payload(data[r], i[r] + 2))]
  /\ log' = [log EXCEPT ![r] = @ \o <<E("timerFired", delay[r]), E("postCall", i[r] + 2)>>]
  /\ UNCHANGED <<world, repo, data, req, http, bundle, widx, remote, err>>

----------------------------------------------------------------------------
(* Specification *)

Start ==
  /\ req = [r \in Reqs |-> NoBody]
  /\ http = [r \in Reqs |-> 0]
  /\ pc = [r \in Reqs |-> "idle"]
  /\ bundle = [r \in Reqs |-> "none"]
  /\ widx = [r \in Reqs |-> 0]
  /\ remote = [r \in Reqs |-> [repo |-> FALSE, files |-> <<>>, writing |-> {}, pages |-> FALSE]]
  /\ i = [r \in Reqs |-> 0]
  /\ delay = [r \in Reqs |-> 0]
  /\ last = [r \in Reqs |-> NoResp]
  /\ err = [r \in Reqs |-> ""]
  /\ log = [r \in Reqs |-> <<>>]
  /\ repo = [r \in Reqs |-> NoRepo]
  /\ data = [r \in Reqs |-> NoData]
  /\ inbox = [r \in Reqs |-> <<>>]

\* Whole pipelines: every answer of the hosting side; the generator rejects,
\* answers without content, or answers with a document; the evaluation
\* endpoint gives one answer of each class.
Init ==
  /\ world = [clients |-> MaxSolo, gen |-> {"throw", "null", "html"},
              pages |-> PagesOutcomes, post |-> ResponseClasses,
              fields |-> {ExampleFields}, owners |-> {"alice"}, late |-> {FALSE}]
  /\ Start

\* The log of a pipeline that has come to its first notification POST.
FirstPostLog ==
  <<E("resp", 200), E("start", 0), E("genCall", 0), E("genHtml", 0),
    E("userCall", 0), E("userRet", 0), E("createCall", 0), E("createRet", 0),
    E("timerSet", InitMs), E("timerFired", InitMs),
    E("writeCall", 1), E("writeRet", 1), E("writeCall", 2), E("writeRet", 2),
    E("writeCall", 3), E("writeRet", 3), E("pagesCall", 0), E("pagesRet", 201),
    E("timerSet", SettleMs), E("timerFired", SettleMs), E("postCall", 1)>>

\* The request of the running example, and the repository created for it.
ExampleBody == BodyOf(SECRET_KEY, TRUE, ExampleFields)

ExampleRepo == RepoData("alice", RepoName(ExampleFields.task, ExampleFields.round))

\* The first MaxNotify requests are at the first POST of notifyEvaluation
\* (the state settleElapsed leaves a pipeline in when everything before went
\* well), the others never arrive.
NotifierStart ==
  LET AtPost(r) == r <= MaxNotify IN
    /\ req = [r \in Reqs |-> IF AtPost(r) THEN ExampleBody ELSE NoBody]
    /\ http = [r \in Reqs |-> IF AtPost(r) THEN 200 ELSE 0]
    /\ pc = [r \in Reqs |-> IF AtPost(r) THEN "post" ELSE "idle"]
    /\ bundle = [r \in Reqs |-> IF AtPost(r) THEN "html" ELSE "none"]
    /\ widx = [r \in Reqs |-> IF AtPost(r) THEN Len(BundleKeys) ELSE 0]
    /\ remote = [r \in Reqs |-> IF AtPost(r)
                                THEN [repo |-> TRUE, files |-> BundleKeys, writing |-> {}, pages |-> TRUE]
                                ELSE [repo |-> FALSE, files |-> <<>>, writing |-> {}, pages |-> FALSE]]
    /\ i = [r \in Reqs |-> 0]
    /\ delay = [r \in Reqs |-> IF AtPost(r) THEN StartDelay ELSE 0]
    /\ last = [r \in Reqs |-> NoResp]
    /\ err = [r \in Reqs |-> ""]
    /\ log = [r \in Reqs |-> IF AtPost(r) THEN FirstPostLog ELSE <<>>]
    /\ repo = [r \in Reqs |-> IF AtPost(r) THEN ExampleRepo ELSE NoRepo]
    /\ data = [r \in Reqs |-> IF AtPost(r) THEN Notice(ExampleBody, ExampleRepo) ELSE NoData]
    /\ inbox = [r \in Reqs |-> IF AtPost(r)
                               THEN Received(<<>>, Payload(Notice(ExampleBody, ExampleRepo), 1))
                               ELSE <<>>]

\* The notifier alone, against every answer of the evaluation endpoint.
InitNotify ==
  /\ world = [clients |-> 0, gen |-> {}, pages |-> {}, post |-> Responses,
              fields |-> {}, owners |-> {}, late |-> {FALSE}]
  /\ NotifierStart

\* The notifier alone, against an evaluation endpoint that answers 200, in
\* time or after the notifier gave up on the attempt, answers 404, or never
\* answers.
InitSlow ==
  /\ world = [clients |-> 0, gen |-> {}, pages |-> {},
              post |-> {[st |-> 200, body |-> "json"], [st |-> 404, body |-> "json"],
                        [st |-> 0, body |-> "timeout"]},
              fields |-> {}, owners |-> {}, late |-> BOOLEAN]
  /\ NotifierStart

\* Whole pipelines against every answer of the generator, the empty document
\* included; the other collaborators succeed or fail.
InitGen ==
  /\ world = [clients |-> MaxSolo, gen |-> GenOutcomes, pages |-> {201, 500},
              post |-> ResponseClasses,
              fields |-> {ExampleFields}, owners |-> {"alice"}, late |-> {FALSE}]
  /\ Start

\* One pipeline whose generation and publishing may fail or succeed, for
\* every request and every owner of the repository.
InitNotice ==
  /\ world = [clients |-> 1, gen |-> {"throw", "html"}, pages |-> {201, 500},
              post |-> ResponseClasses,
              fields |-> AllFields, owners |-> Owners, late |-> {FALSE}]
  /\ Start

\* Concurrent pipelines; each collaborator succeeds or fails.
InitConc ==
  /\ world = [clients |-> MaxConc, gen |-> {"throw", "html"}, pages |-> {201, 500},
              post |-> {[st |-> 200, body |-> "json"], [st |-> 404, body |-> "json"]},
              fields |-> {ExampleFields}, owners |-> {"alice"}, late |-> {FALSE}]
  /\ Start

Next ==
  \E r \in Reqs :
    \/ Build(r)
    \/ generateCodeReturn(r)
    \/ getAuthenticatedReturn(r)
    \/ createRepoReturn(r)
    \/ repoInitElapsed(r)
    \/ createFileReturn(r)
    \/ createPagesSiteReturn(r)
    \/ settleElapsed(r)
    \/ postReturn(r)
    \/ backoffElapsed(r)

\* The steps of notifyEvaluation.
NextNotify ==
  \E r \in Reqs :
    \/ postReturn(r)
    \/ backoffElapsed(r)

\* The steps of the pipeline of request r: the return of an external call
\* or the firing of a timer.
Resume(r) ==
  \/ generateCodeReturn(r)
  \/ getAuthenticatedReturn(r)
  \/ createRepoReturn(r)
  \/ repoInitElapsed(r)
  \/ createFileReturn(r)
  \/ createPagesSiteReturn(r)
  \/ settleElapsed(r)
  \/ postReturn(r)
  \/ backoffElapsed(r)

Spec == Init /\ [][Next]_vars

SpecNotify == InitNotify /\ [][NextNotify]_vars

SpecSlow == InitSlow /\ [][NextNotify]_vars

SpecNotice == InitNotice /\ [][Next]_vars

SpecGen == InitGen /\ [][Next]_vars

SpecConc == InitConc /\ [][Next]_vars

\* Every external call eventually returns or fails and every timer fires:
\* a pipeline that can resume eventually does.
SpecFair == Init /\ [][Next]_vars /\ \A r \in Reqs : WF_vars(Resume(r))

----------------------------------------------------------------------------
(* Observations on the log of one request *)

\* The events that issue a call to the generator, the hosting side or the
\* evaluation endpoint.
Calls == {"genCall", "userCall", "createCall", "writeCall", "pagesCall", "postCall"}

\* The calls that publish: repository creation, file writes, hosting.
PublishCalls == {"userCall", "createCall", "writeCall", "pagesCall"}

HasAny(s, evs) == \E k \in 1..Len(s) : s[k].ev \in evs

Arrived(r) == http[r] # 0

Valid(r) == Arrived(r) /\ req[r].present /\ req[r].secret = SECRET_KEY

\* Number of POST attempts made, and of attempts that failed.
Posts(r) == Count(log[r], "postCall")

\* The outcome of the latest completed attempt ("none" before the first).
LastAnswer(r) ==
  LET ks == {k \in 1..Len(log[r]) : log[r][k].ev \in {"postOk", "postNot200", "postThrow"}}
  IN IF ks = {} THEN "none"
     ELSE log[r][CHOOSE k \in ks : \A j \in ks : j <= k].ev

\* The files the hosting side holds or is writing, in the order of the calls
\* (at most one write is in flight when this is used).
Written(r) ==
  remote[r].files \o
    (IF remote[r].writing = {} THEN <<>> ELSE <<CHOOSE f \in remote[r].writing : TRUE>>)

IsPrefix(s, t) == Len(s) <= Len(t) /\ \A k \in 1..Len(s) : s[k] = t[k]

\* 2^n
RECURSIVE Pow2(_)
Pow2(n) == IF n = 0 THEN 1 ELSE 2 * Pow2(n - 1)

\* The generation of request r failed: generateCode threw before, at or
\* after its call to the generator.
GenFailed(r) ==
  \/ Has(log[r], "genThrow")
  \/ Has(log[r], "genNull")
  \/ Has(log[r], "start") /\ ~Has(log[r], "genCall")

Fails(r) == Count(log[r], "postThrow") + Count(log[r], "postNot200")

\* The initial state of SpecNotify is a state of Spec: a pipeline at its
\* first POST, with the loop counter at 0 and the delay at its start value.
AtFirstPost ==
  \E r \in Reqs :
    /\ req[r] = ExampleBody /\ repo[r] = ExampleRepo
    /\ data[r] = Notice(ExampleBody, ExampleRepo)
    /\ inbox[r] = <<[notice |-> data[r], ok |-> FALSE]>>
    /\ http[r] = 200 /\ pc[r] = "post" /\ bundle[r] = "html" /\ widx[r] = 3
    /\ remote[r] = [repo |-> TRUE, files |-> BundleKeys, writing |-> {}, pages |-> TRUE]
    /\ i[r] = 0 /\ delay[r] = StartDelay /\ last[r] = NoResp /\ err[r] = ""
    /\ log[r] = FirstPostLog

----------------------------------------------------------------------------
(* Claims *)

\* C1: a request with the configured secret is answered 200, and the 200 is
\* sent before processRequest is started, hence before any external call of
\* the request is issued or completes: the answer is the first event of the
\* request, it is there as soon as the request has arrived (the handler waits
\* for no pipeline stage), and processRequest starts right after it.
C1_AckBeforePipeline ==
  \A r \in Reqs :
    /\ Valid(r) =>
         /\ http[r] = 200
         /\ Len(log[r]) >= 2
         /\ log[r][1] = E("resp", 200)
         /\ log[r][2] = E("start", 0)
    /\ \A k \in 1..Len(log[r]) :
         log[r][k].ev # "resp" => k > 1 /\ log[r][1] = E("resp", 200)

\* C1 witness: an acknowledged request whose generation call has returned.
C1_Witness == \E r \in Reqs : http[r] = 200 /\ Has(log[r], "genHtml")

\* C2: a request whose secret differs from the configured one is answered
\* 403 and never starts the pipeline: no call to the generator, the hosting
\* side or the evaluation endpoint exists for a request answered 403.
C2_BadSecretNoPipeline ==
  \A r \in Reqs :
    /\ (Arrived(r) /\ req[r].present /\ req[r].secret # SECRET_KEY) => http[r] = 403
    /\ http[r] = 403 =>
         /\ pc[r] = "idle"
         /\ ~Has(log[r], "start")
         /\ ~HasAny(log[r], Calls)
         /\ ~remote[r].repo

\* C2 witness: a request with a wrong secret has been answered 403.
C2_Witness ==
  \E r \in Reqs : http[r] = 403 /\ req[r].secret = "wrong" /\ log[r] = <<E("resp", 403)>>

\* C3: a deliver operation that succeeds after N failed attempts has made
\* exactly N+1 attempts (N < 5) and makes no attempt after the success; one
\* whose 5 attempts all failed has made exactly 5 and reports failure; no
\* deliver operation ever makes more than 5 attempts.
C3_AttemptCount ==
  \A r \in Reqs :
    LET posts == Posts(r)
        fails == Fails(r)
        ok == Has(log[r], "postOk")
    IN
      /\ posts <= 5
      /\ ok =>
           /\ pc[r] = "done"
           /\ fails < 5
           /\ posts = fails + 1
           /\ log[r][Len(log[r]) - 1] = E("postOk", posts)
      /\ (posts > 0 /\ ~ok /\ fails < 5) =>
           /\ pc[r] \in {"post", "sleep"}
           /\ pc[r] = "post" => posts = fails + 1
           /\ pc[r] = "sleep" => posts = fails
      /\ (posts > 0 /\ ~ok /\ fails >= 5) =>
           /\ pc[r] = "failed"
           /\ err[r] = "notify"
           /\ posts = 5
           /\ fails = 5
      /\ err[r] = "notify" => fails = 5 /\ ~ok

\* C3 witness: a delivery that succeeded on its 5th attempt.
C3_Witness ==
  \E r \in Reqs : Has(log[r], "postOk") /\ Fails(r) = 4 /\ Posts(r) = 5

\* C3 second witness: a delivery whose 5 attempts all failed.
C3_WitnessExhausted ==
  \E r \in Reqs : err[r] = "notify" /\ Posts(r) = 5 /\ pc[r] = "failed"

\* C4: after every failed attempt that is not the 5th, whatever the failure
\* (no response, a status outside 2xx, or a 2xx status other than 200), the
\* notifier sleeps for the current delay before the next attempt and then
\* doubles it, so that attempt k+1 directly follows a sleep of 2^(k-1) s; no
\* sleep follows the 5th failed attempt.
C4_BackoffAfterEveryFailure ==
  \A r \in Reqs :
    \A k \in 1..Len(log[r]) :
      /\ (log[r][k].ev \in {"postThrow", "postNot200"} /\ log[r][k].n < 5) =>
           log[r][k + 1] = E("timerSet", 1000 * Pow2(log[r][k].n - 1))
      /\ (log[r][k].ev \in {"postThrow", "postNot200"} /\ log[r][k].n >= 5) =>
           log[r][k + 1].ev # "timerSet"
      /\ (log[r][k].ev = "postCall" /\ log[r][k].n > 1) =>
           log[r][k - 1] = E("timerFired", 1000 * Pow2(log[r][k].n - 2))

\* C5: the outcome of an attempt depends on the status only: an answer with
\* status 200 ends the delivery as a success whatever its body, an answer
\* with status 404 or 500 is a failed attempt whatever its body, and a
\* delivery only ever succeeds on an answer with status 200.
C5_StatusDecides ==
  \A r \in Reqs :
    /\ pc[r] = "post" => last[r] = NoResp
    /\ last[r].st = 200 => LastAnswer(r) = "postOk" /\ pc[r] = "done"
    /\ last[r].st \in {201, 204} => LastAnswer(r) = "postNot200" /\ pc[r] = "failed"
    /\ last[r].st \in {404, 500} =>
         /\ LastAnswer(r) = "postThrow"
         /\ pc[r] \in {"sleep", "failed"}
         /\ ~Has(log[r], "postOk")
    /\ (pc[r] = "done" \/ Has(log[r], "postOk")) => last[r].st = 200

\* C5 witness: a delivery that succeeded on a 200 whose body is not JSON,
\* after an attempt had been made (the 200 was not necessarily the first).
C5_Witness ==
  \E r \in Reqs : last[r] = [st |-> 200, body |-> "junk"] /\ pc[r] = "done"

\* C5 second witness: a 404 with a well-formed body counted as a failure.
C5_WitnessFailure ==
  \E r \in Reqs : last[r] = [st |-> 404, body |-> "json"] /\ pc[r] = "sleep"

\* C6: when the generation throws, the pipeline ends with the failure logged,
\* once, and nothing else: no repository-create, file-write or enable-hosting
\* call and no notification POST is ever made for the request.
C6_GenerationFailureStops ==
  \A r \in Reqs :
    GenFailed(r) =>
      /\ pc[r] = "failed"
      /\ err[r] = "generate"
      /\ log[r][Len(log[r])] = E("logError", 0)
      /\ Count(log[r], "logError") = 1
      /\ ~HasAny(log[r], PublishCalls)
      /\ ~Has(log[r], "postCall")
      /\ ~Has(log[r], "logSuccess")
      /\ remote[r] = [repo |-> FALSE, files |-> <<>>, writing |-> {}, pages |-> FALSE]

\* C6 witness: the generation call was issued and rejected.
C6_Witness ==
  \E r \in Reqs : Has(log[r], "genCall") /\ Has(log[r], "genThrow") /\ pc[r] = "failed"

\* C7: the files are written one at a time in the insertion order of the
\* bundle (index.html, README.md, LICENSE): write j+1 is issued only when
\* write j has succeeded, the first write only when the repository-create
\* call has returned and the 3 s wait that follows it has elapsed, and no two
\* writes of a pipeline are in flight together.
C7_SequentialWrites ==
  \A r \in Reqs :
    /\ Cardinality(remote[r].writing) <= 1
    /\ IsPrefix(Written(r), <<"index.html", "README.md", "LICENSE">>)
    /\ \A k \in 1..Len(log[r]) :
         /\ log[r][k].ev = "writeCall" =>
              /\ log[r][k].n > 1 => log[r][k - 1] = E("writeRet", log[r][k].n - 1)
              /\ log[r][k].n = 1 =>
                   /\ log[r][k - 1] = E("timerFired", 3000)
                   /\ log[r][k - 2] = E("timerSet", 3000)
                   /\ log[r][k - 3] = E("createRet", 0)
              /\ k = Len(log[r]) =>
                   /\ Len(remote[r].files) = log[r][k].n - 1
                   /\ remote[r].writing # {}
         /\ log[r][k].ev \in {"writeRet", "writeFail"} => log[r][k - 1] = E("writeCall", log[r][k].n)
         /\ log[r][k].ev = "createRet" => \A j \in 1..(k - 1) : log[r][j].ev # "createRet"

\* C7 witness: the three files have been written.
C7_Witness ==
  \E r \in Reqs :
    remote[r].files = <<"index.html", "README.md", "LICENSE">> /\ Has(log[r], "pagesCall")

\* C8: when the write of file k fails, file k is not written again, no file
\* after k is written, files 1..k-1 and the repository stay in place, and the
\* pipeline ends without enabling hosting and without any notification.
C8_WriteFailureStops ==
  \A r \in Reqs :
    \A j \in 1..Len(log[r]) :
      log[r][j].ev = "writeFail" =>
        LET k == log[r][j].n IN
          /\ Len(log[r]) = j + 1
          /\ log[r][j + 1] = E("logError", 0)
          /\ Count(log[r], "writeCall") = k
          /\ remote[r].repo
          /\ remote[r].files = SubSeq(<<"index.html", "README.md", "LICENSE">>, 1, k - 1)
          /\ remote[r].writing = {}
          /\ ~remote[r].pages
          /\ pc[r] = "failed"
          /\ err[r] = "publish"
          /\ ~Has(log[r], "pagesCall")
          /\ ~Has(log[r], "postCall")

\* C8 witness: the write of the second file failed.
C8_Witness ==
  \E r \in Reqs : Has(log[r], "writeFail") /\ remote[r].files = <<"index.html">>

\* C9: when enable-hosting fails with the 409 conflict, enableGitHubPages
\* returns normally and the pipeline goes on to the settle wait (and from it
\* to the notification); when it fails with another error, the pipeline ends
\* and no notification is ever sent.
C9_PagesConflictIsSuccess ==
  \A r \in Reqs :
    \A k \in 1..Len(log[r]) :
      log[r][k].ev = "pagesRet" =>
        /\ log[r][k].n = 409 =>
             /\ log[r][k + 1] = E("timerSet", 30000)
             /\ err[r] # "pages"
             /\ pc[r] \in {"settle", "post", "sleep", "done"} \/ (pc[r] = "failed" /\ err[r] = "notify")
             /\ pc[r] # "settle" => Has(log[r], "postCall")
        /\ log[r][k].n \notin {201, 409} =>
             /\ log[r][k + 1] = E("logError", 0)
             /\ Len(log[r]) = k + 1
             /\ pc[r] = "failed"
             /\ err[r] = "pages"
             /\ ~Has(log[r], "postCall")

\* C9 witness: hosting was already enabled and the notification was sent.
C9_Witness ==
  \E r \in Reqs : Has(log[r], "postCall") /\ \E k \in 1..Len(log[r]) : log[r][k] = E("pagesRet", 409)

\* C10: the stages of a pipeline occur in the order generation, repository
\* creation and file writes, enable hosting, 30 s wait, first notification:
\* no publish call precedes the return of a bundle by the generator, hosting
\* is enabled only when all files are written, and the first POST is issued
\* only when hosting has been enabled and the 30 s wait set after it has
\* elapsed.
C10_StageOrder ==
  \A r \in Reqs :
    /\ \A k \in 1..Len(log[r]) :
         LET e == log[r][k] IN
           /\ e.ev = "genCall" => log[r][k - 1] = E("start", 0)
           /\ e.ev \in {"genHtml", "genEmpty"} => log[r][k - 1] = E("genCall", 0)
           /\ e.ev = "userCall" => log[r][k - 1].ev \in {"genHtml", "genEmpty"} /\ bundle[r] # "none"
           /\ e.ev = "userRet" => log[r][k - 1] = E("userCall", 0)
           /\ e.ev = "createCall" => log[r][k - 1] = E("userRet", 0)
           /\ e.ev = "createRet" => log[r][k - 1] = E("createCall", 0)
           /\ (e.ev = "writeCall" /\ e.n = 1) => log[r][k - 3] = E("createRet", 0)
           /\ (e.ev = "writeCall" /\ e.n > 1) => log[r][k - 1] = E("writeRet", e.n - 1)
           /\ e.ev = "writeRet" => log[r][k - 1] = E("writeCall", e.n)
           /\ e.ev = "pagesCall" => log[r][k - 1] = E("writeRet", 3)
           /\ e.ev = "pagesRet" => log[r][k - 1] = E("pagesCall", 0)
           /\ (e.ev = "postCall" /\ e.n = 1) =>
                /\ log[r][k - 1] = E("timerFired", 30000)
                /\ log[r][k - 2] = E("timerSet", 30000)
                /\ log[r][k - 3] \in {E("pagesRet", 201), E("pagesRet", 409)}
                /\ remote[r].pages
           /\ (e.ev = "postCall" /\ e.n > 1) =>
                log[r][k - 1].ev \in {"postNot200", "timerFired"} /\ log[r][k - 1].n # 30000

\* C10 witness: the first notification POST has been issued.
C10_Witness ==
  \E r \in Reqs : pc[r] = "post" /\ log[r][Len(log[r])] = E("postCall", 1)

\* C11: a pipeline logs its success only when the latest notification attempt
\* was answered 200, and then every stage before it succeeded (a bundle, the
\* repository with its three files, hosting enabled, no error logged); a
\* pipeline in which generation, publishing, hosting or delivery failed never
\* logs success.
C11_SuccessNeedsDelivery ==
  \A r \in Reqs :
    LET n == Len(log[r]) IN
      /\ Has(log[r], "logSuccess") =>
           /\ log[r][n] = E("logSuccess", 0)
           /\ log[r][n - 1].ev = "postOk"
           /\ last[r].st = 200
           /\ inbox[r][Len(inbox[r])].ok
           /\ pc[r] = "done"
           /\ err[r] = ""
           /\ bundle[r] # "none"
           /\ remote[r] = [repo |-> TRUE, files |-> <<"index.html", "README.md", "LICENSE">>,
                           writing |-> {}, pages |-> TRUE]
           /\ \A k \in 1..n :
                /\ log[r][k].ev \notin {"genThrow", "genNull", "userFail", "createFail",
                                        "writeFail", "logError"}
                /\ log[r][k].ev = "pagesRet" => log[r][k].n \in {201, 409}
      /\ (pc[r] = "failed" \/ err[r] # "") => ~Has(log[r], "logSuccess")

\* C11 witness: a pipeline that logged success after a failed attempt.
C11_Witness ==
  \E r \in Reqs : Has(log[r], "logSuccess") /\ Has(log[r], "postThrow")

\* C11 second witness: a pipeline whose delivery failed.
C11_WitnessFailed ==
  \E r \in Reqs : err[r] = "notify" /\ pc[r] = "failed" /\ remote[r].pages

\* C12: among the POST attempts of one deliver operation, those the notifier
\* gave up on at its 10 s timeout included, at most one is answered 200 by
\* the evaluation endpoint, and no POST is issued after an attempt that was
\* answered 200 (the attempt answered 200 is the last one the endpoint
\* received).
C12_DeliveredAtMostOnce ==
  \A r \in Reqs :
    /\ Cardinality({j \in 1..Len(inbox[r]) : inbox[r][j].ok}) <= 1
    /\ \A j \in 1..Len(inbox[r]) : inbox[r][j].ok => j = Len(inbox[r])

\* A deliver operation whose notice the endpoint accepted twice: the first
\* POST was answered 200 after the timeout, the second in time.
C12_DeliveredTwice ==
  \E r \in Reqs :
    /\ Len(inbox[r]) = 2
    /\ inbox[r][1].ok /\ inbox[r][2].ok
    /\ pc[r] = "done"

\* C13: every notice the evaluation endpoint receives for a request carries
\* the email, task, round and nonce of that request; the repository was
\* created under the name {task}-round{round}; pages_url is
\* https://{owner}.github.io/{task}-round{round}/ with the owner the hosting
\* side reported for the created repository, and repo_url is the URL it
\* reported.  Task t1, round 2 gives the name t1-round2 and the pages_url
\* https://{owner}.github.io/t1-round2/.
C13_NoticeFromRequest ==
  \A r \in Reqs :
    /\ remote[r].repo =>
         /\ repo[r].name = <<req[r].task, "-round", ToString(req[r].round)>>
         /\ repo[r].login \in Owners
         /\ (req[r].task = "t1" /\ req[r].round = 2) => repo[r].name = <<"t1", "-round", "2">>
    /\ \A k \in 1..Len(inbox[r]) :
         LET n == inbox[r][k].notice IN
           /\ remote[r].repo
           /\ n.email = req[r].email
           /\ n.task = req[r].task
           /\ n.round = req[r].round
           /\ n.nonce = req[r].nonce
           /\ n.pages_url = <<"https://", repo[r].login, ".github.io/",
                              req[r].task, "-round", ToString(req[r].round), "/">>
           /\ n.repo_url = repo[r].html_url
           /\ n.repo_url = <<"https://github.com/", repo[r].login, "/",
                             req[r].task, "-round", ToString(req[r].round)>>
           /\ (req[r].task = "t1" /\ req[r].round = 2) =>
                n.pages_url = <<"https://", repo[r].login, ".github.io/", "t1", "-round", "2", "/">>

\* C13 witness: the notice of a request for task t1, round 2, whose
\* repository belongs to acme, has been received and accepted.
C13_Witness ==
  \E r \in Reqs :
    /\ req[r].task = "t1" /\ req[r].round = 2 /\ req[r].email = "b@y.org" /\ req[r].nonce = "n2"
    /\ repo[r].login = "acme"
    /\ Len(inbox[r]) >= 1 /\ inbox[r][Len(inbox[r])].ok

\* C14: for one request the generation call, the lookup of the account, the
\* repository-create call, the write of each bundle file and the
\* enable-hosting call are each issued at most once, whatever fails; no file
\* is written twice on the hosting side.
C14_StagesAttemptedOnce ==
  \A r \in Reqs :
    /\ \A j \in 1..Len(log[r]) :
         log[r][j].ev \in {"genCall", "userCall", "createCall", "writeCall", "pagesCall"} =>
           \A k \in (j + 1)..Len(log[r]) : log[r][k] # log[r][j]
    /\ \A a, b \in 1..Len(remote[r].files) :
         a # b => remote[r].files[a] # remote[r].files[b]

\* C14 witness: a pipeline that POSTed five times and made every other call
\* once.
C14_Witness ==
  \E r \in Reqs :
    /\ Count(log[r], "postCall") = 5
    /\ Count(log[r], "genCall") = 1
    /\ Count(log[r], "createCall") = 1
    /\ Count(log[r], "writeCall") = 3
    /\ Count(log[r], "pagesCall") = 1

\* C14 second witness: a pipeline that failed at a file write made no call
\* again.
C14_WitnessFailure ==
  \E r \in Reqs :
    /\ Has(log[r], "writeFail") /\ pc[r] = "failed"
    /\ Count(log[r], "genCall") = 1 /\ Count(log[r], "createCall") = 1

\* C15: when the generator returns an empty document, the generation fails
\* and the pipeline ends for the request: the failure is logged, no call to
\* the hosting side is made and no notification is sent.
C15_EmptyContentStops ==
  \A r \in Reqs :
    Has(log[r], "genEmpty") =>
      /\ pc[r] = "failed"
      /\ err[r] = "generate"
      /\ ~HasAny(log[r], PublishCalls)
      /\ ~Has(log[r], "postCall")

\* An empty document was published and notified as a success.
C15_EmptyPublished ==
  \E r \in Reqs :
    /\ bundle[r] = "empty"
    /\ remote[r].files = BundleKeys
    /\ Has(log[r], "logSuccess")

\* What holds of the responses and the failures of every request in every
\* state: one response, sent first; every failure of a stage is followed by
\* the error log of processRequest and by nothing else.
OneResponseFailuresLogged ==
  \A r \in Reqs :
    LET n == Len(log[r]) IN
      /\ ~Arrived(r) => n = 0
      /\ Arrived(r) =>
           /\ http[r] \in {200, 403, 500}
           /\ log[r][1] = E("resp", http[r])
           /\ \A k \in 2..n : log[r][k].ev # "resp"
      /\ \A k \in 1..n :
           /\ log[r][k].ev \in {"genThrow", "genNull", "userFail", "createFail", "writeFail"} =>
                k < n /\ log[r][k + 1] = E("logError", 0)
           /\ (log[r][k].ev = "pagesRet" /\ log[r][k].n \notin {201, 409}) =>
                k < n /\ log[r][k + 1] = E("logError", 0)
           /\ (log[r][k].ev \in {"postThrow", "postNot200"} /\ log[r][k].n = 5) =>
                k < n /\ log[r][k + 1] = E("logError", 0)
           /\ log[r][k].ev = "logError" => k = n /\ pc[r] = "failed" /\ http[r] = 200
      /\ pc[r] = "failed" => n > 1 /\ log[r][n] = E("logError", 0) /\ err[r] # ""

\* C16: every failure inside a pipeline, the exhaustion of the notifier's
\* attempts included, is caught by processRequest and only logged; each
\* request gets exactly one HTTP response, 403, 200 or 500, and the response
\* of a request never changes afterwards: a request acknowledged with 200 is
\* never answered again.
C16_FailuresOnlyLogged ==
  /\ []OneResponseFailuresLogged
  /\ [][\A r \in Reqs : http[r] # 0 => http'[r] = http[r]]_vars

\* C16 witness: the notifier exhausted its attempts for a request that had
\* been acknowledged with 200; the failure is logged.
C16_Witness ==
  \E r \in Reqs :
    /\ http[r] = 200 /\ err[r] = "notify" /\ pc[r] = "failed"
    /\ log[r][Len(log[r])] = E("logError", 0)
    /\ Count(log[r], "resp") = 1

\* C16 second witness: a request without a body is answered 500.
C16_WitnessNoBody == \E r \in Reqs : http[r] = 500 /\ log[r] = <<E("resp", 500)>>

\* C17: the evaluation endpoint receives one notice per POST attempt of a
\* deliver operation, and the notice of attempt k equals the notice of
\* attempt 1, which is the notice processRequest built: no field changes
\* between retries, whether the retry follows a sleep or is immediate.
C17_SameNoticeEveryAttempt ==
  \A r \in Reqs :
    /\ Len(inbox[r]) = Posts(r)
    /\ \A k \in 1..Len(inbox[r]) :
         /\ inbox[r][k].notice = inbox[r][1].notice
         /\ inbox[r][k].notice = data[r]

\* C17 witness: five attempts were made, some after a sleep and some at
\* once.
C17_Witness ==
  \E r \in Reqs :
    /\ Len(inbox[r]) = 5
    /\ Has(log[r], "postThrow") /\ Has(log[r], "postNot200")
    /\ data[r].task = "t2"

\* Everything the program holds for request q: its request, its response,
\* the position, bundle, published location and notice of its pipeline, the
\* loop counter and delay of its deliver operation, and what its
\* collaborators hold for it.
PipelineState(q) ==
  <<req[q], http[q], pc[q], bundle[q], widx[q], remote[q], repo[q], data[q],
    i[q], delay[q], last[q], err[q], log[q], inbox[q]>>

\* C18: every step is the step of one request and leaves the state of every
\* other request unchanged, whether it succeeds or fails; a deliver operation
\* starts with its attempt count at 0 and its delay at 1 s whatever the other
\* deliver operations have done.
C18_ShareNothing ==
  [][/\ \E r \in Reqs : \A q \in Reqs \ {r} : PipelineState(q)' = PipelineState(q)
     /\ \A r \in Reqs :
          (pc[r] = "settle" /\ pc'[r] = "post") =>
            /\ i'[r] = 0
            /\ delay'[r] = 1000
            /\ log'[r][Len(log'[r])] = E("postCall", 1)]_vars

\* C18 witness: a deliver operation is at its first attempt, with delay 1 s,
\* while another has already slept and doubled its delay.
C18_Witness ==
  \E r, q \in Reqs :
    /\ r # q
    /\ pc[r] = "post" /\ i[r] = 1 /\ delay[r] = 2000
    /\ pc[q] = "post" /\ i[q] = 0 /\ delay[q] = 1000
    /\ log[q][Len(log[q])] = E("postCall", 1)

\* C18 second witness: a pipeline has failed while another goes on.
C18_WitnessFailure ==
  \E r, q \in Reqs : pc[r] = "failed" /\ pc[q] = "sleep" /\ delay[q] = 1000

\* The pipelines that are suspended at an external call or at a timer.
Suspended == {r \in Reqs : pc[r] \notin {"idle", "done", "failed"}}

\* C19: as long as the clients have a request left to send, the handler can
\* take one and answer it, with 200 (starting its pipeline) as well as with
\* 403, wherever the pipelines of the earlier requests are suspended.
C19_IntakeNeverBlocked ==
  (\E r \in Reqs : r <= world.clients /\ http[r] = 0) =>
    \E r \in Reqs :
      /\ ENABLED (Build(r) /\ http'[r] = 200 /\ pc'[r] = "gen")
      /\ ENABLED (Build(r) /\ http'[r] = 403 /\ pc'[r] = "idle")

\* C19 witness: a request can be accepted while a pipeline is suspended at a
\* backoff sleep of the notifier.
C19_Witness ==
  \E r, q \in Reqs :
    /\ pc[r] = "sleep"
    /\ q <= world.clients /\ http[q] = 0
    /\ ENABLED (Build(q) /\ http'[q] = 200)

\* C19 second witness: a request was accepted and every pipeline is
\* suspended, at the settle delay and at a generation call.
C19_WitnessAllSuspended ==
  /\ Suspended = 1..world.clients
  /\ \E r, q \in Reqs : pc[r] = "settle" /\ pc[q] = "gen"

\* processRequest has been called for request r.
Started(r) == Has(log[r], "start")

\* The pipeline of r has ended: with the success log, or with an error log.
Terminal(r) ==
  \/ pc[r] = "done" /\ log[r][Len(log[r])] = E("logSuccess", 0)
  \/ pc[r] = "failed" /\ log[r][Len(log[r])] = E("logError", 0)

\* Number of backoff sleeps of the notifier.
Sleeps(r) ==
  Cardinality({k \in 2..Len(log[r]) : log[r][k].ev = "timerSet" /\ log[r][k - 1].ev = "postThrow"})

\* C20: when every external call eventually returns or fails and every
\* timer fires, every started pipeline eventually ends, with the success log
\* or with an error log; the notifier never makes more than 5 attempts nor
\* sleeps more than 4 times.
C20_PipelineTerminates ==
  /\ \A r \in Reqs : Started(r) ~> Terminal(r)
  /\ [](\A r \in Reqs : Posts(r) <= 5 /\ Sleeps(r) <= 4)

\* C20 witness: a pipeline has ended after 5 attempts and 4 sleeps.
C20_Witness ==
  \E r \in Reqs : Started(r) /\ Terminal(r) /\ Posts(r) = 5 /\ Sleeps(r) = 4

\* C20 second witness: a pipeline has ended with the success log.
C20_WitnessSuccess ==
  \E r \in Reqs : Started(r) /\ Terminal(r) /\ pc[r] = "done" /\ Posts(r) = 1

====
